---- MODULE Spec2Model ----
(* State-machine model of the snake game in src/apps/web/src/ui/snake.py.py: *)
(* the SnakeGame object (snake, direction, apple) and the main loop that     *)
(* handles key events, advances one tick per frame and computes the score;   *)
(* of the dependency installer src/install_deps.py: the commands one run of  *)
(* its main issues, given what npm ls and pip show report and what npm       *)
(* install leaves behind; and of the runner src/run_argon.py.                *)
EXTENDS Integers, Sequences, FiniteSets, TLC

\* The snake game.
VARIABLES snake, direction, apple, score, state, pc, ate, used, lastKey, nkeys,
          frameDir, frameKeys

\* The installer.
VARIABLES ipc, args, present, node_modules, drift, reports, issued

gvars == <<snake, direction, apple, score, state, pc, ate, used, lastKey,
           nkeys, frameDir, frameKeys>>

ivars == <<ipc, args, present, node_modules, drift, reports, issued>>

vars == <<snake, direction, apple, score, state, pc, ate, used, lastKey, nkeys,
          frameDir, frameKeys, ipc, args, present, node_modules, drift,
          reports, issued>>

(* ---------------------------------------------------------------- bounds *)
\* The body grows on every tick, so its length bounds the number of ticks.
\* Events are delivered, and runs in which a key was delivered are followed,
\* while the body is shorter than MaxLen; runs without any key are followed
\* while it is shorter than MaxIdleLen.
MaxLen == 7
MaxIdleLen == 34
\* Key events delivered in one run.
MaxKeys == 2
\* In one run: the dependencies that are not installed when it starts, plus
\* the single answers of npm ls that an npm command, a cleanup or a rewrite of
\* package.json changes apart from the folder-wide outcomes (see Flip).
MaxDrift == 1

(* ------------------------------------------------------------- constants *)
WIDTH == 800
HEIGHT == 600
CELL == 20
GATE == 200

None == <<>>
Headings == {"UP", "DOWN", "LEFT", "RIGHT"}

Opposite(h) ==
    CASE h = "UP" -> "DOWN"
      [] h = "DOWN" -> "UP"
      [] h = "LEFT" -> "RIGHT"
      [] h = "RIGHT" -> "LEFT"
      [] OTHER -> "NONE"

Last(s) == s[Len(s)]
Front(s) == SubSeq(s, 1, Len(s) - 1)
Cells(s) == {s[i] : i \in 1..Len(s)}

(* ------------------------------------------------------- SnakeGame logic *)
\* Variant of the move whose UP branch steps half a cell.
NewHead_HalfStepUp(head, dir) ==
    CASE dir = "UP" -> <<head[1], head[2] - 10>>
      [] dir = "DOWN" -> <<head[1], head[2] + CELL>>
      [] dir = "LEFT" -> <<head[1] - CELL, head[2]>>
      [] dir = "RIGHT" -> <<head[1] + CELL, head[2]>>

\* move_snake, lines 37-45: the cell one step from head in the heading.
NewHead(head, dir) ==
    CASE dir = "UP" -> <<head[1], head[2] - CELL>>
      [] dir = "DOWN" -> <<head[1], head[2] + CELL>>
      [] dir = "LEFT" -> <<head[1] - CELL, head[2]>>
      [] dir = "RIGHT" -> <<head[1] + CELL, head[2]>>

\* The list random.choice draws from (lines 50-51 and 111-112).
GridCells ==
    {<<(x \div CELL) * CELL, (y \div CELL) * CELL>> :
        x \in {CELL * i : i \in 0..((WIDTH - 1) \div CELL)},
        y \in {CELL * j : j \in 0..((HEIGHT - 1) \div CELL)}}

\* Variant of the boundary policy that turns UP at either side edge, whatever
\* the row.
BoundaryDirection_AlwaysUp(new_head, dir) ==
    IF new_head[1] < 0 \/ new_head[1] > WIDTH - CELL
    THEN "UP"
    ELSE IF new_head[2] < 0 \/ new_head[2] > HEIGHT - CELL
         THEN (IF new_head[1] = GATE THEN "LEFT" ELSE "RIGHT")
         ELSE dir

\* move_snake, lines 53-56: the heading after the boundary policy.
BoundaryDirection(new_head, dir) ==
    IF new_head[1] < 0 \/ new_head[1] > WIDTH - CELL
    THEN (IF new_head[2] = GATE THEN "UP" ELSE "DOWN")
    ELSE IF new_head[2] < 0 \/ new_head[2] > HEIGHT - CELL
         THEN (IF new_head[1] = GATE THEN "LEFT" ELSE "RIGHT")
         ELSE dir

\* Variant of the self-collision loop that compares one coordinate at a time:
\* a body cell in the new head's column or row counts as a hit.
MoveAlive_EitherCoordinate(new_head, body) ==
    ~ \E i \in 1..Len(body) : new_head[1] = body[i][1] \/ new_head[2] = body[i][2]

\* Variant of the self-collision loop that skips the oldest body cell.
MoveAlive_SkipOldest(new_head, body) ==
    ~ \E i \in 2..Len(body) : new_head[1] = body[i][1] /\ new_head[2] = body[i][2]

\* move_snake, lines 58-62: the value returned, given the body before the append.
MoveAlive(new_head, body) ==
    ~ \E i \in 1..Len(body) : new_head[1] = body[i][1] /\ new_head[2] = body[i][2]

\* check_collision, lines 66-71: the boundary gate.
GateMet(head) ==
    IF head[1] < 0 \/ head[1] > WIDTH - CELL
    THEN head[2] = GATE
    ELSE IF head[2] < 0 \/ head[2] > HEIGHT - CELL
         THEN head[1] = GATE
         ELSE FALSE

\* Variant of check_collision whose loop skips the oldest body cell.
check_collision_SkipOldest(s) ==
    \/ GateMet(Last(s))
    \/ \E i \in 2..(Len(s) - 1) : Last(s)[1] = s[i][1] /\ Last(s)[2] = s[i][2]

\* check_collision, lines 64-76.
check_collision(s) ==
    \/ GateMet(Last(s))
    \/ \E i \in 1..(Len(s) - 1) : Last(s)[1] = s[i][1] /\ Last(s)[2] = s[i][2]

\* check_apple_collision, lines 78-83.
check_apple_collision(a, s) ==
    IF a = None
       \/ ~ (/\ (a[1] - 20) \div 20 = Last(s)[1] \div 20
             /\ (a[2] - 20) \div 20 = Last(s)[2] \div 20)
    THEN FALSE
    ELSE TRUE

\* main, lines 115-116: the second conjunct of the consumption test.
AppleAtStart(a) ==
    /\ (a[1] - 20) \div 20 = (200 - 20) \div 20
    /\ (a[2] - 20) \div 20 = (200 - 20) \div 20

\* main, line 115: the branch that grows the snake.
Consumed(a, s) == check_apple_collision(a, s) /\ ~ AppleAtStart(a)

\* Variant of get_score that counts the segments gained since the start.
get_score_Gained(s) == Len(s) - 3

get_score(s) == Len(s)

\* Variant of the growth step that assigns the body instead of appending.
Grow_Replace(s) == <<<<220, 200>>>>

\* main, line 118: the growth step.
Grow(s) == Append(s, <<220, 200>>)

\* main, lines 119-121: the score of a tick that does not take the growth
\* branch, from the score read on line 114.
ScoreWithoutGrowth(s, sc) ==
    IF ~ check_collision(s)
    THEN (IF Len(s) > sc THEN sc - 1 ELSE sc)
    ELSE sc

\* Variant of the key handler that steers relative to the current heading:
\* K_LEFT turns counter-clockwise, K_RIGHT clockwise.
HandleKey_Relative(dir, key) ==
    IF key = "UP" /\ dir # "DOWN" THEN "UP"
    ELSE IF key = "DOWN" /\ dir # "UP" THEN "DOWN"
    ELSE IF key = "LEFT"
         THEN (CASE dir = "UP" -> "LEFT" [] dir = "LEFT" -> "DOWN"
                 [] dir = "DOWN" -> "RIGHT" [] dir = "RIGHT" -> "UP")
    ELSE IF key = "RIGHT"
         THEN (CASE dir = "UP" -> "RIGHT" [] dir = "RIGHT" -> "DOWN"
                 [] dir = "DOWN" -> "LEFT" [] dir = "LEFT" -> "UP")
    ELSE dir

\* Variant of the key handler whose K_UP branch assigns nothing.
HandleKey_UpDropped(dir, key) ==
    IF key = "UP" /\ dir # "DOWN" THEN dir
    ELSE IF key = "DOWN" /\ dir # "UP" THEN "DOWN"
    ELSE IF key = "LEFT" /\ dir # "RIGHT" THEN "LEFT"
    ELSE IF key = "RIGHT" /\ dir # "LEFT" THEN "RIGHT"
    ELSE dir

\* Variant of the key handler whose K_LEFT branch lacks the reversal guard.
HandleKey_LeftUnguarded(dir, key) ==
    IF key = "UP" /\ dir # "DOWN" THEN "UP"
    ELSE IF key = "DOWN" /\ dir # "UP" THEN "DOWN"
    ELSE IF key = "LEFT" THEN "LEFT"
    ELSE IF key = "RIGHT" /\ dir # "LEFT" THEN "RIGHT"
    ELSE dir

\* main, lines 98-104: the conditions under which a KEYDOWN event assigns
\* game.direction.
Accepts(dir, key) ==
    \/ key = "UP" /\ dir # "DOWN"
    \/ key = "DOWN" /\ dir # "UP"
    \/ key = "LEFT" /\ dir # "RIGHT"
    \/ key = "RIGHT" /\ dir # "LEFT"

\* main, lines 98-105: the heading after one KEYDOWN event.
HandleKey(dir, key) ==
    IF key = "UP" /\ dir # "DOWN" THEN "UP"
    ELSE IF key = "DOWN" /\ dir # "UP" THEN "DOWN"
    ELSE IF key = "LEFT" /\ dir # "RIGHT" THEN "LEFT"
    ELSE IF key = "RIGHT" /\ dir # "LEFT" THEN "RIGHT"
    ELSE dir

(* ---------------------------------------------------------- the installer *)
\* install_deps.py, lines 35-62: what is installed.
SERVER_RUNTIME ==
    <<"fastify", "@fastify/cors", "@fastify/multipart", "@fastify/static",
      "pdf-parse", "mammoth", "pdfjs-dist", "ffmpeg-static">>
SERVER_DEV == <<"typescript", "@types/node">>
WEB_RUNTIME == <<"react-markdown", "remark-gfm">>
WEB_DEV == <<"vite", "@vitejs/plugin-react", "react", "react-dom", "typescript">>
PY_RUNTIME == <<"pyinstaller">>

Folders == {"server", "web"}

Range(q) == {q[i] : i \in 1..Len(q)}

\* Every dependency the installer asks npm ls or pip show about, as
\* <<where, package>>.
AllDeps ==
    {<<"server", p>> : p \in Range(SERVER_RUNTIME) \cup Range(SERVER_DEV)}
    \cup {<<"web", p>> : p \in Range(WEB_RUNTIME) \cup Range(WEB_DEV)}
    \cup {<<"python", p>> : p \in Range(PY_RUNTIME)}

\* main, lines 220-221 and 229-230: the four calls of npm_install_if_missing.
NpmSteps == {"server_runtime", "server_dev", "web_runtime", "web_dev"}

NpmCall(step) ==
    CASE step = "server_runtime" -> [cwd |-> "server", flag |-> "", pkgs |-> SERVER_RUNTIME]
      [] step = "server_dev" -> [cwd |-> "server", flag |-> "-D", pkgs |-> SERVER_DEV]
      [] step = "web_runtime" -> [cwd |-> "web", flag |-> "", pkgs |-> WEB_RUNTIME]
      [] step = "web_dev" -> [cwd |-> "web", flag |-> "-D", pkgs |-> WEB_DEV]

\* main, lines 217-243: the order of the steps after the start-up.
StepAfter(step) ==
    CASE step = "server_pkg_json" -> "server_runtime"
      [] step = "server_runtime" -> "server_dev"
      [] step = "server_dev" -> "server_local"
      [] step = "server_local" -> "server_shims"
      [] step = "server_shims" -> "web_pkg_json"
      [] step = "web_pkg_json" -> "web_runtime"
      [] step = "web_runtime" -> "web_dev"
      [] step = "web_dev" -> "web_local"
      [] step = "web_local" -> "web_shims"
      [] step = "web_shims" -> "pip_bootstrap"
      [] step = "pip_bootstrap" -> "pip_runtime"
      [] step = "pip_runtime" -> "build"
      [] step = "build" -> "done"

\* npm_has_pkg, lines 162-166, and pip_show, lines 185-188: the return code
\* of the query is 0 iff the package is installed.
npm_has_pkg(folder, pkg) == <<folder, pkg>> \in present
pip_show(pkg) == <<"python", pkg>> \in present

\* npm_install_if_missing, line 170.
NpmMissing(folder, pkgs) == SelectSeq(pkgs, LAMBDA p : ~ npm_has_pkg(folder, p))

\* pip_install_if_missing, line 191.
PipMissing(pkgs) == SelectSeq(pkgs, LAMBDA p : ~ pip_show(p))

\* A command handed to run (lines 66-72).
Cmd(c, cwd, flag, pkgs) == [cmd |-> c, cwd |-> cwd, flag |-> flag, pkgs |-> pkgs]

\* The npm dependencies, which live in the two app folders.
NpmDeps == {d \in AllDeps : d[1] \in Folders}

FolderPart(deps, folder) == {d \in deps : d[1] = folder}

\* The subsets of S with at most k elements.
RECURSIVE SubsetsUpTo(_, _)
SubsetsUpTo(S, k) ==
    IF k = 0
    THEN {{}}
    ELSE LET smaller == SubsetsUpTo(S, k - 1)
         IN smaller \cup {T \cup {x} : T \in smaller, x \in S}

\* deps with the answers for the dependencies of changed turned around.
Flip(deps, changed) == (deps \ changed) \cup (changed \ deps)

\* What npm ls and pip show answer after a command is the tool's doing, not
\* the installer's: it depends on what the package.json files list, on
\* whether the folders belong to a workspace that hoists packages to its
\* root, on what the node_modules directories hold and on the scripts the
\* command runs.  The model takes it as the environment's choice: one of the
\* outcomes wides, and on top of it any single answers of pool that turn
\* around, as many as MaxDrift still allows.
Drifted(wides, pool) ==
    {[present |-> Flip(w, changed),
      drift |-> drift + Cardinality(changed)] :
            w \in wides, changed \in SubsetsUpTo(pool, MaxDrift - drift)}

\* The dependencies pip installs.
PyDeps == AllDeps \ NpmDeps

\* An "npm install --no-package-lock [-D] pkgs" in folder (lines 174 and 181;
\* pkgs is empty on line 181), whatever it returned: a command that fails may
\* have installed packages before it failed (a lifecycle script that fails
\* runs after the packages are in place).  The folder-wide outcomes: nothing
\* changed, the named packages are installed besides those that were, or all
\* the folder's dependencies are (package.json lists them all).  Single
\* answers turn around for a named package that npm left out (a dev package in
\* a production environment), for a package that package.json does not list
\* (npm prunes it) and, in either folder, for a package installed at or
\* missing from a workspace root.
NpmInstallOutcomes(folder, pkgs) ==
    LET named == {<<folder, p>> : p \in Range(pkgs)}
        others == present \ FolderPart(present, folder)
    IN Drifted({present,
                present \cup named,
                others \cup FolderPart(AllDeps, folder)}, NpmDeps)

\* The folder's node_modules directory after an npm install there: npm
\* creates it unless it has nothing to put there.
NpmInstallNodeModules(folder) == {node_modules, node_modules \cup {folder}}

\* ensure_pkg_json (lines 98-117) when package.json was written: it is
\* rewritten, with its defaults filled in, or from nothing when it could not
\* be parsed.  npm ls, which fails on a package.json it cannot parse, may
\* answer again, for the other folder of a workspace too.
PkgJsonOutcomes(folder) == Drifted({present}, NpmDeps)

\* ensure_pkg_json when write_text (line 116) raised: the file may have been
\* emptied before the write failed, and npm ls then fails in the folder, or in
\* both folders of a workspace.
PkgJsonFailed(folder) ==
    Drifted({present,
             present \ FolderPart(present, folder),
             present \ NpmDeps}, NpmDeps)

\* clean, lines 155-160, for both folders (line 210), where dirs are the
\* folders that have a node_modules: what npm ls answers afterwards.  The
\* packages installed for such a folder go with its node_modules, or stay
\* (they are installed at a workspace root, or rmtree could not remove them),
\* or all the folder's dependencies are found (the node_modules removed held
\* copies that hid good ones at a workspace root).  With no node_modules to
\* remove nothing changes.
Cleaned(deps, dirs) ==
    LET After(folder) ==
            IF folder \in dirs
            THEN {FolderPart(deps, folder), {}, FolderPart(AllDeps, folder)}
            ELSE {FolderPart(deps, folder)}
    IN Drifted({(deps \ NpmDeps) \cup s \cup w :
                    s \in After("server"), w \in After("web")},
               IF dirs = {} THEN {} ELSE NpmDeps)

\* "npm run build" in the folders built (lines 242-243; run_argon.py, lines
\* 35-36): the build script is the package's own, and a bundler may create
\* the folder's node_modules for its cache.
BuildOutcomes == Drifted({present}, NpmDeps)

BuildNodeModules(built) == {node_modules \cup made : made \in SUBSET built}

\* A pip install (lines 236 and 194) naming pkgs, whatever it returned: which
\* of the packages pip show finds afterwards is pip's doing.
PipInstallOutcomes(pkgs) ==
    Drifted({present \cup {<<"python", p>> : p \in shown} :
                 shown \in SUBSET (Range(pkgs) \cap Range(PY_RUNTIME))}, PyDeps)

\* No installer run has started.
InstallerIdle ==
    /\ ipc = "idle"
    /\ args = [want_build |-> TRUE, do_rebuild |-> FALSE]
    /\ present = AllDeps
    /\ node_modules = Folders
    /\ drift = 0
    /\ reports = <<>>
    /\ issued = <<>>

\* Start-up of main (lines 198-215): the arguments, the tool checks, the
\* optional cleanup and the two version commands.  clean removes a
\* node_modules with rmtree(ignore_errors=True) (line 158), so one that cannot
\* be removed stays.  run exits the process when a command fails (lines 69-71).
IStart ==
    /\ ipc = "start"
    /\ \E ok \in BOOLEAN :
         IF ~ ok
         THEN /\ ipc' = "exit"
              /\ UNCHANGED <<present, node_modules, drift, issued>>
         ELSE /\ IF args.do_rebuild
                 THEN /\ \E o \in Cleaned(present, node_modules) :
                           present' = o.present /\ drift' = o.drift
                      /\ node_modules' \in SUBSET node_modules
                 ELSE UNCHANGED <<present, node_modules, drift>>
              /\ \E rc1, rc2 \in {0, 1} :
                   /\ issued' = IF rc1 # 0
                                THEN <<Cmd("python -V", "", "", <<>>)>>
                                ELSE <<Cmd("python -V", "", "", <<>>),
                                       Cmd("npm -v", "", "", <<>>)>>
                   /\ ipc' = IF rc1 # 0 \/ rc2 # 0 THEN "exit" ELSE "server_pkg_json"
    /\ UNCHANGED <<args, reports>>
    /\ UNCHANGED gvars

\* ensure_pkg_json and rm_lockfiles, lines 218-219 and 227-228.  Writing
\* package.json can raise, which ends the run.
IEnsurePkgJson ==
    /\ ipc \in {"server_pkg_json", "web_pkg_json"}
    /\ LET folder == IF ipc = "server_pkg_json" THEN "server" ELSE "web"
       IN \E written \in BOOLEAN :
            IF ~ written
            THEN /\ ipc' = "exit"
                 /\ \E o \in PkgJsonFailed(folder) :
                      present' = o.present /\ drift' = o.drift
            ELSE /\ ipc' = StepAfter(ipc)
                 /\ \E o \in PkgJsonOutcomes(folder) :
                      present' = o.present /\ drift' = o.drift
    /\ UNCHANGED <<args, node_modules, reports, issued>>
    /\ UNCHANGED gvars

\* npm_install_if_missing (lines 168-175), called on lines 220, 221, 229, 230.
\* reports records what npm ls answered for the listed packages.  run exits
\* the process when the command fails (lines 69-71), with what npm did until
\* then done.
INpmInstallIfMissing ==
    /\ ipc \in NpmSteps
    /\ LET call == NpmCall(ipc)
           missing == NpmMissing(call.cwd, call.pkgs)
       IN /\ reports' = Append(reports,
                 [step |-> ipc,
                  absent |-> {p \in Range(call.pkgs) : ~ npm_has_pkg(call.cwd, p)}])
          /\ IF missing = <<>>
             THEN /\ ipc' = StepAfter(ipc)
                  /\ UNCHANGED <<present, node_modules, drift, issued>>
             ELSE /\ issued' = Append(issued,
                        Cmd("npm install", call.cwd, call.flag, missing))
                  /\ \E rc \in {0, 1} :
                       ipc' = IF rc # 0 THEN "exit" ELSE StepAfter(ipc)
                  /\ \E o \in NpmInstallOutcomes(call.cwd, missing) :
                       present' = o.present /\ drift' = o.drift
                  /\ node_modules' \in NpmInstallNodeModules(call.cwd)
    /\ UNCHANGED <<args>>
    /\ UNCHANGED gvars

\* ensure_local_install (lines 177-183), called on lines 222 and 231.
IEnsureLocalInstall ==
    /\ ipc \in {"server_local", "web_local"}
    /\ LET folder == IF ipc = "server_local" THEN "server" ELSE "web"
       IN IF folder \notin node_modules
          THEN /\ issued' = Append(issued, Cmd("npm install", folder, "", <<>>))
               /\ \E rc \in {0, 1} :
                    ipc' = IF rc # 0 THEN "exit" ELSE StepAfter(ipc)
               /\ \E o \in NpmInstallOutcomes(folder, <<>>) :
                    present' = o.present /\ drift' = o.drift
               /\ node_modules' \in NpmInstallNodeModules(folder)
          ELSE /\ ipc' = StepAfter(ipc)
               /\ UNCHANGED <<present, node_modules, drift, issued>>
    /\ UNCHANGED <<args, reports>>
    /\ UNCHANGED gvars

\* write_ts_shims and ensure_tsconfig_server, lines 223-224, and write_ts_shims,
\* line 232: the files are written; a write that raises ends the run.
IWriteShims ==
    /\ ipc \in {"server_shims", "web_shims"}
    /\ \E written \in BOOLEAN : ipc' = IF written THEN StepAfter(ipc) ELSE "exit"
    /\ UNCHANGED <<args, present, node_modules, drift, reports, issued>>
    /\ UNCHANGED gvars

\* main, line 236: the bootstrap upgrade, run on every pass.
IPipBootstrap ==
    /\ ipc = "pip_bootstrap"
    /\ issued' = Append(issued,
           Cmd("pip install", "", "--upgrade", <<"pip", "setuptools", "wheel">>))
    /\ \E rc \in {0, 1} : ipc' = IF rc # 0 THEN "exit" ELSE StepAfter(ipc)
    /\ \E o \in PipInstallOutcomes(<<"pip", "setuptools", "wheel">>) :
         present' = o.present /\ drift' = o.drift
    /\ UNCHANGED <<args, node_modules, reports>>
    /\ UNCHANGED gvars

\* pip_install_if_missing (lines 190-195), called on line 237.  Which of the
\* packages pip show finds after the pip install is pip's doing.
IPipInstallIfMissing ==
    /\ ipc = "pip_runtime"
    /\ LET missing == PipMissing(PY_RUNTIME)
       IN /\ reports' = Append(reports,
                 [step |-> ipc,
                  absent |-> {p \in Range(PY_RUNTIME) : ~ pip_show(p)}])
          /\ IF missing = <<>>
             THEN /\ ipc' = StepAfter(ipc)
                  /\ UNCHANGED <<present, drift, issued>>
             ELSE /\ issued' = Append(issued, Cmd("pip install", "", "", missing))
                  /\ \E rc \in {0, 1} :
                       ipc' = IF rc # 0 THEN "exit" ELSE StepAfter(ipc)
                  /\ \E o \in PipInstallOutcomes(missing) :
                       present' = o.present /\ drift' = o.drift
    /\ UNCHANGED <<args, node_modules>>
    /\ UNCHANGED gvars

\* main, lines 240-246: the optional build of both apps.
IBuild ==
    /\ ipc = "build"
    /\ IF args.want_build
       THEN \E rc1, rc2 \in {0, 1} :
              /\ issued' = IF rc1 # 0
                           THEN Append(issued, Cmd("npm run build", "server", "", <<>>))
                           ELSE issued \o <<Cmd("npm run build", "server", "", <<>>),
                                            Cmd("npm run build", "web", "", <<>>)>>
              /\ ipc' = IF rc1 # 0 \/ rc2 # 0 THEN "exit" ELSE StepAfter(ipc)
              /\ \E o \in BuildOutcomes :
                   present' = o.present /\ drift' = o.drift
              /\ node_modules' \in BuildNodeModules(
                     IF rc1 # 0 THEN {"server"} ELSE Folders)
       ELSE /\ ipc' = StepAfter(ipc)
            /\ UNCHANGED <<present, node_modules, drift, issued>>
    /\ UNCHANGED <<args, reports>>
    /\ UNCHANGED gvars

(* ------------------------------------------------------------ the machine *)
\* SnakeGame.__init__ (lines 27-30) at the start of main. score is the local
\* of main that is rendered each tick (0 until the first tick assigns it);
\* pc is the position in the loop body: "events" at the event loop (line 93),
\* "move" at the call of move_snake (line 109), "done" once the loop is left;
\* used is the heading the latest move was made with, ate whether the latest
\* completed tick took the growth branch, lastKey the latest key event of the
\* current frame, nkeys the number of key events delivered so far, frameDir
\* the value of game.direction when the current frame began and frameKeys the
\* key events handled in the current frame, in order.
GameInit ==
    /\ snake = <<<<200, 200>>, <<220, 200>>, <<240, 200>>>>
    /\ direction = "RIGHT"
    /\ apple = None
    /\ score = 0
    /\ state = "RUNNING"
    /\ pc = "events"
    /\ ate = FALSE
    /\ used = "NONE"
    /\ lastKey = "NONE"
    /\ nkeys = 0
    /\ frameDir = "RIGHT"
    /\ frameKeys = <<>>

\* A game session; no installer run is in progress.
Init ==
    /\ GameInit
    /\ InstallerIdle

\* Variant of the event loop that keeps handling key events after the loop
\* of main has stopped.
KeyDown_AfterBreak(key) ==
    /\ nkeys < MaxKeys
    /\ Len(snake) < MaxLen
    /\ direction' = HandleKey(direction, key)
    /\ lastKey' = key
    /\ nkeys' = nkeys + 1
    /\ frameKeys' = Append(frameKeys, key)
    /\ UNCHANGED <<snake, apple, score, state, pc, ate, used, frameDir>>
    /\ UNCHANGED ivars

\* One KEYDOWN event of the event loop (lines 97-105).
KeyDown(key) ==
    /\ state = "RUNNING"
    /\ pc = "events"
    /\ nkeys < MaxKeys
    /\ Len(snake) < MaxLen
    /\ direction' = HandleKey(direction, key)
    /\ lastKey' = key
    /\ nkeys' = nkeys + 1
    /\ frameKeys' = Append(frameKeys, key)
    /\ UNCHANGED <<snake, apple, score, state, pc, ate, used, frameDir>>
    /\ UNCHANGED ivars

\* The QUIT event (lines 94-96): the process exits.
Quit ==
    /\ state = "RUNNING"
    /\ pc = "events"
    /\ Len(snake) < MaxLen
    /\ state' = "QUIT"
    /\ pc' = "done"
    /\ UNCHANGED <<snake, direction, apple, score, ate, used, lastKey, nkeys,
                   frameDir, frameKeys>>
    /\ UNCHANGED ivars

\* The event queue is drained: the loop body goes on to line 107, which
\* resets the apple, and reaches the call of move_snake.
ClearApple ==
    /\ state = "RUNNING"
    /\ pc = "events"
    /\ Len(snake) < (IF nkeys = 0 THEN MaxIdleLen ELSE MaxLen)
    /\ apple' = None
    /\ pc' = "move"
    /\ UNCHANGED <<snake, direction, score, state, ate, used, lastKey, nkeys,
                   frameDir, frameKeys>>
    /\ UNCHANGED ivars

\* The rest of the loop iteration (lines 109-121): move, spawn, eat, score.
\* move_snake finds game.apple None, so line 50 draws a cell; when the loop
\* goes on, line 111 replaces it with a second draw before anything reads it.
\* apple' is the outcome of the last random.choice made, any cell of the grid.
TickStep ==
    LET new_head == NewHead(Last(snake), direction)
        moved == Append(snake, new_head)
    IN /\ used' = direction
       /\ lastKey' = "NONE"
       /\ direction' = BoundaryDirection(new_head, direction)
       /\ frameDir' = direction'
       /\ frameKeys' = <<>>
       /\ UNCHANGED nkeys
       /\ apple' \in GridCells
       /\ IF ~ MoveAlive(new_head, snake)
          THEN /\ state' = "GAME_OVER"
               /\ pc' = "done"
               /\ snake' = moved
               /\ UNCHANGED <<score, ate>>
          ELSE /\ UNCHANGED state
               /\ pc' = "events"
               /\ IF Consumed(apple', moved)
                  THEN /\ score' = get_score(moved) + 1
                       /\ snake' = Grow(moved)
                       /\ ate' = TRUE
                  ELSE /\ score' = ScoreWithoutGrowth(moved, get_score(moved))
                       /\ snake' = moved
                       /\ ate' = FALSE

Tick ==
    /\ state = "RUNNING"
    /\ pc = "move"
    /\ TickStep
    /\ UNCHANGED ivars

Next ==
    \/ \E key \in Headings : KeyDown(key)
    \/ Quit
    \/ ClearApple
    \/ Tick

Spec == Init /\ [][Next]_vars

\* A session in which the event queue stays empty: every iteration of the
\* while loop (line 92) goes straight to line 107 and runs the tick, and the
\* loop keeps iterating until the break of line 110.
IdleNext ==
    \/ ClearApple
    \/ Tick

SpecIdle == Init /\ [][IdleNext]_vars /\ WF_vars(ClearApple) /\ WF_vars(Tick)

\* The tree a run finds: which dependencies are installed and which app
\* folders have a node_modules directory of their own.
TreeFound ==
    /\ \E absent \in SubsetsUpTo(AllDeps, MaxDrift) :
         /\ present = AllDeps \ absent
         /\ drift = Cardinality(absent)
    /\ node_modules \in SUBSET Folders

\* One installer run: its inputs are the arguments and the tree it finds.
InstallInit ==
    /\ GameInit
    /\ ipc = "start"
    /\ args \in [want_build : BOOLEAN, do_rebuild : BOOLEAN]
    /\ TreeFound
    /\ reports = <<>>
    /\ issued = <<>>

InstallNext ==
    \/ IStart
    \/ IEnsurePkgJson
    \/ INpmInstallIfMissing
    \/ IEnsureLocalInstall
    \/ IWriteShims
    \/ IPipBootstrap
    \/ IPipInstallIfMissing
    \/ IBuild

SpecInstall == InstallInit /\ [][InstallNext]_vars

(* ----------------------------------------------------------- run_argon.py *)
\* One run of the runner: parse_args (lines 53-59) and the tree it finds.
ArgonInit ==
    /\ GameInit
    /\ ipc = "argon_start"
    /\ args \in [skip_install : BOOLEAN, no_build : BOOLEAN]
    /\ TreeFound
    /\ reports = <<>>
    /\ issued = <<>>

\* ensure_node (lines 24-29), called on line 63: sh exits the process when a
\* command fails (lines 20-21).
AEnsureNode ==
    /\ ipc = "argon_start"
    /\ \E rc1, rc2 \in {0, 1} :
         /\ issued' = IF rc1 # 0
                      THEN <<Cmd("node -v", "", "", <<>>)>>
                      ELSE <<Cmd("node -v", "", "", <<>>), Cmd("npm -v", "", "", <<>>)>>
         /\ ipc' = IF rc1 # 0 \/ rc2 # 0 THEN "exit"
                   ELSE IF args.skip_install THEN "argon_build"
                   ELSE "argon_install_server"
    /\ UNCHANGED <<args, present, node_modules, drift, reports>>
    /\ UNCHANGED gvars

\* npm_install_no_lock (lines 31-32), called on lines 69 and 70: the install
\* without package names is run whether or not node_modules exists.  sh
\* exits the process when it fails, with what npm did until then done.
ANpmInstallNoLock ==
    /\ ipc \in {"argon_install_server", "argon_install_web"}
    /\ LET folder == IF ipc = "argon_install_server" THEN "server" ELSE "web"
       IN /\ issued' = Append(issued, Cmd("npm install", folder, "", <<>>))
          /\ \E rc \in {0, 1} :
               ipc' = IF rc # 0 THEN "exit"
                      ELSE IF folder = "server" THEN "argon_install_web"
                      ELSE "argon_build"
          /\ \E o \in NpmInstallOutcomes(folder, <<>>) :
               present' = o.present /\ drift' = o.drift
          /\ node_modules' \in NpmInstallNodeModules(folder)
    /\ UNCHANGED <<args, reports>>
    /\ UNCHANGED gvars

\* build_all (lines 34-36), called on line 76 unless --no-build was given.
ABuildAll ==
    /\ ipc = "argon_build"
    /\ IF ~ args.no_build
       THEN \E rc1, rc2 \in {0, 1} :
              /\ issued' = IF rc1 # 0
                           THEN Append(issued, Cmd("npm run build", "server", "", <<>>))
                           ELSE issued \o <<Cmd("npm run build", "server", "", <<>>),
                                            Cmd("npm run build", "web", "", <<>>)>>
              /\ ipc' = IF rc1 # 0 \/ rc2 # 0 THEN "exit" ELSE "argon_serve"
              /\ \E o \in BuildOutcomes :
                   present' = o.present /\ drift' = o.drift
              /\ node_modules' \in BuildNodeModules(
                     IF rc1 # 0 THEN {"server"} ELSE Folders)
       ELSE /\ ipc' = "argon_serve"
            /\ UNCHANGED <<present, node_modules, drift, issued>>
    /\ UNCHANGED <<args, reports>>
    /\ UNCHANGED gvars

\* start_server (lines 38-51): exits when the server build is not there,
\* else runs it until it ends.
AStartServer ==
    /\ ipc = "argon_serve"
    /\ \E built \in BOOLEAN :
         IF ~ built
         THEN /\ ipc' = "exit"
              /\ UNCHANGED issued
         ELSE /\ issued' = Append(issued, Cmd("node dist/index.js", "server", "", <<>>))
              /\ \E rc \in {0, 1} : ipc' = IF rc # 0 THEN "exit" ELSE "done"
    /\ UNCHANGED <<args, present, node_modules, drift, reports>>
    /\ UNCHANGED gvars

ArgonNext ==
    \/ AEnsureNode
    \/ ANpmInstallNoLock
    \/ ABuildAll
    \/ AStartServer

SpecArgon == ArgonInit /\ [][ArgonNext]_vars

TypeOK ==
    /\ direction \in Headings
    /\ state \in {"RUNNING", "GAME_OVER", "QUIT"}

(* ------------------------------------------------------------ properties *)
\* The new head a tick computes from the current state.
TickHead == NewHead(Last(snake), direction)

InGrid(c) == c[1] >= 0 /\ c[1] < WIDTH /\ c[2] >= 0 /\ c[2] < HEIGHT

NoDuplicates(s) == \A i, j \in 1..Len(s) : i # j => s[i] # s[j]

\* C1: on a tick whose new head hits no body cell, meets no gate condition and
\* consumes no food, the session stays alive and the body keeps its length:
\* the new head is appended and the tail-most segment removed.
C1_LengthKeptWithoutFood ==
    [][(Tick /\ TickHead \notin Cells(snake) /\ ~ GateMet(TickHead) /\ ~ ate')
          => /\ state' = "RUNNING"
             /\ Len(snake') = Len(snake)
             /\ snake' = Append(Tail(snake), TickHead)]_vars

\* C2: the heading a tick moves with is never the direct opposite of the
\* heading the preceding tick moved with.
C2_NoReversalBetweenTicks ==
    [][Tick => direction # Opposite(used)]_vars

\* C3: on a tick that consumes food the body length grows by exactly 1 and the
\* score grows by exactly 1 over the score of the previous tick.
C3_ConsumptionAddsOne ==
    [][(Tick /\ state' = "RUNNING" /\ ate')
          => /\ Len(snake') = Len(snake) + 1
             /\ (used # "NONE" => score' = score + 1)]_vars

\* C4: a spawned food cell differs from every cell the body occupies when it
\* is spawned (the body before the growth step of that tick).
C4_FoodNotOnBody ==
    apple # None =>
        \A i \in 1..(Len(snake) - (IF state = "RUNNING" /\ ate THEN 1 ELSE 0)) :
            snake[i] # apple

\* C5: every body cell lies inside the grid rectangle [0, WIDTH) x [0, HEIGHT).
C5_BodyInsideGrid ==
    \A i \in 1..Len(snake) : InGrid(snake[i])

\* C6: a tick ends the game iff its new head equals a body cell other than
\* the tail-most (oldest) segment.
C6_CollisionExcludesTail ==
    [][Tick => ((state' = "GAME_OVER") <=> (TickHead \in Cells(Tail(snake))))]_vars

\* C7: a tick on which the boundary gate condition is met ends the game.
C7_GateEndsGame ==
    [][(Tick /\ GateMet(TickHead)) => state' = "GAME_OVER"]_vars

\* C8: a tick whose new head equals a cell already in the body reports
\* not-alive and stops the loop on that tick: the head is appended, and no
\* food check, growth or score update takes place.
C8_SelfCollisionStopsTick ==
    [][(TickHead \in Cells(snake) /\ Tick)
          => /\ state' = "GAME_OVER"
             /\ snake' = Append(snake, TickHead)
             /\ score' = score
             /\ ate' = ate]_vars

C8_Witness ==
    /\ state = "GAME_OVER"
    /\ Last(snake) \in Cells(Front(snake))

\* C9: a heading request opposite to the committed heading is a no-op, any
\* other request becomes the committed heading; body, food, score and session
\* state are left alone either way.
C9_ReversalRejected ==
    [][(nkeys' = nkeys + 1)
          => /\ IF lastKey' = Opposite(direction)
                THEN direction' = direction
                ELSE direction' = lastKey'
             /\ UNCHANGED <<snake, apple, score, state>>]_vars

C9_Witness ==
    /\ lastKey # "NONE"
    /\ lastKey = Opposite(direction)

\* C10: after every completed tick, growth step included, the body holds no
\* duplicate cells.
C10_NoDuplicateCells ==
    state = "RUNNING" => NoDuplicates(snake)

\* C11: the session becomes GAME_OVER only on a tick whose new head is a body
\* cell or meets the gate condition; a tick whose new head merely lies outside
\* the grid (no body cell, no gate) leaves the session RUNNING.
C11_DeathOnlyByCollisionOrGate ==
    [][/\ (state = "RUNNING" /\ state' = "GAME_OVER")
            => (Tick /\ (TickHead \in Cells(snake) \/ GateMet(TickHead)))
       /\ (~ InGrid(TickHead) /\ ~ GateMet(TickHead)
                /\ TickHead \notin Cells(snake) /\ Tick)
            => state' = "RUNNING"]_vars

C11_Witness ==
    /\ state = "GAME_OVER"
    /\ \E i \in 1..(Len(snake) - 1) : ~ InGrid(snake[i]) /\ ~ GateMet(snake[i])

\* C12: GAME_OVER is terminal: from a GAME_OVER state no step changes the
\* body, the heading, the food, the score or the session state, and no
\* further key event or tick is processed.
C12_GameOverTerminal ==
    [][state = "GAME_OVER" => UNCHANGED vars]_vars

C12_Witness ==
    /\ state = "GAME_OVER"
    /\ nkeys < MaxKeys
    /\ Len(snake) < MaxLen

\* C13: the body always has at least one segment and its length never
\* decreases from one state to the next.
C13_LengthNeverDecreases ==
    /\ [](Len(snake) >= 1)
    /\ [][Len(snake') >= Len(snake)]_vars

C13_Witness ==
    /\ ate
    /\ Len(snake) > 3

\* C14: a heading request repeated within one inter-tick window leaves the
\* committed heading as the first application left it.
C14_SetHeadingIdempotent ==
    [][(nkeys' = nkeys + 1 /\ lastKey' = lastKey) => direction' = direction]_vars

C14_Witness ==
    /\ Len(frameKeys) = 2
    /\ frameKeys[1] = frameKeys[2]
    /\ direction = frameKeys[2]
    /\ frameDir # direction

\* C16: a food cell that the latest tick did not consume stays the food cell:
\* no step clears or replaces it.
C16_FoodPersists ==
    [][(apple # None /\ ~ ate) => apple' = apple]_vars

\* C17: a tick detects consumption iff its head cell equals the food cell.
C17_ConsumedIffHeadOnFood ==
    [][(Tick /\ state' = "RUNNING") => (ate' <=> apple' = TickHead)]_vars

\* A step in which the body gained a segment; only a tick appends to it.
TickTaken == Len(snake') > Len(snake)

\* The key events of a frame that the handler's conditions accept, in order,
\* starting from heading dir.
RECURSIVE AcceptedKeys(_, _)
AcceptedKeys(dir, keys) ==
    IF keys = <<>> THEN <<>>
    ELSE IF Accepts(dir, Head(keys))
         THEN <<Head(keys)>> \o AcceptedKeys(Head(keys), Tail(keys))
         ELSE AcceptedKeys(dir, Tail(keys))

\* C18: the heading a tick moves with is the last accepted request of the
\* frame, or the heading committed when the frame began if none was accepted;
\* the tick reads it once, after all the frame's requests.
C18_LastAcceptedWins ==
    [][TickTaken =>
        LET acc == AcceptedKeys(frameDir, frameKeys)
            h == IF acc = <<>> THEN frameDir ELSE Last(acc)
        IN /\ used' = h
           /\ snake'[Len(snake) + 1] = NewHead(Last(snake), h)]_vars

\* The first frame handled two requests (a vertical one, then K_LEFT, both
\* accepted) and the first tick moved LEFT.
C18_Witness ==
    /\ Len(snake) = 4
    /\ nkeys = 2
    /\ frameKeys = <<>>
    /\ used = "LEFT"

\* C19: on a consumption tick the head cell after the tick is the new head
\* that tick's move computed.
C19_GrowthKeepsHead ==
    [][(Tick /\ state' = "RUNNING" /\ ate') => Last(snake') = TickHead]_vars

\* C20: whenever a score has been rendered and the loop has not stopped, the
\* score equals the number of body segments.
C20_ScoreIsLength ==
    (state # "GAME_OVER" /\ used # "NONE") => score = Len(snake)

C20_Witness ==
    /\ state = "RUNNING"
    /\ ate
    /\ score = Len(snake)

\* The call a report belongs to: the folder, flag and listed packages.
ReportCall(step) ==
    IF step = "pip_runtime"
    THEN [cwd |-> "", flag |-> "", pkgs |-> PY_RUNTIME]
    ELSE NpmCall(step)

ReportCmd(step) == IF step = "pip_runtime" THEN "pip install" ELSE "npm install"

\* The install commands issued with package arguments for one call.
ListedInstalls(step) ==
    SelectSeq(issued, LAMBDA c : /\ c.cmd = ReportCmd(step)
                                 /\ c.cwd = ReportCall(step).cwd
                                 /\ c.flag = ReportCall(step).flag
                                 /\ c.pkgs # <<>>)

\* Every npm install and pip install command issued so far.
InstallCmds ==
    SelectSeq(issued, LAMBDA c : c.cmd \in {"npm install", "pip install"})

\* For every call, the packages installed are exactly the listed packages that
\* npm ls or pip show reported missing; nothing is installed for a call that
\* reported none missing or that has not run.
InstallsExactlyMissing ==
    /\ \A i \in 1..Len(reports) :
         LET r == reports[i]
             expected == SelectSeq(ReportCall(r.step).pkgs, LAMBDA p : p \in r.absent)
         IN ListedInstalls(r.step) =
                IF r.absent = {}
                THEN <<>>
                ELSE <<Cmd(ReportCmd(r.step), ReportCall(r.step).cwd,
                           ReportCall(r.step).flag, expected)>>
    /\ \A step \in NpmSteps \cup {"pip_runtime"} :
         (\A i \in 1..Len(reports) : reports[i].step # step)
            => ListedInstalls(step) = <<>>

\* All five queries ran and none reported a missing dependency.
AllReportedPresent ==
    /\ Len(reports) = 5
    /\ \A i \in 1..Len(reports) : reports[i].absent = {}

\* C15: an install of listed packages is issued for exactly the packages
\* reported missing, and a run on which every listed dependency is reported
\* present issues no npm install and no pip install command.
C15_NoInstallWhenPresent ==
    /\ InstallsExactlyMissing
    /\ AllReportedPresent => InstallCmds = <<>>

Axis(h) == IF h \in {"UP", "DOWN"} THEN "vertical" ELSE "horizontal"

\* C21: when a tick's new head falls outside the grid, the heading committed
\* after the tick lies on the other axis than the heading the tick moved with,
\* and the boundary contact does not end the game.
C21_BoundaryTurnsToOtherAxis ==
    [][(Tick /\ ~ InGrid(TickHead))
          => /\ Axis(direction') # Axis(direction)
             /\ (TickHead \notin Cells(snake) => state' = "RUNNING")]_vars

\* C22: every body cell and the food cell, when present, have coordinates
\* that are multiples of the cell size, and the food cell lies inside the grid.
C22_CellsOnGridLines ==
    /\ \A i \in 1..Len(snake) : snake[i][1] % 20 = 0 /\ snake[i][2] % 20 = 0
    /\ apple # None => (apple[1] % 20 = 0 /\ apple[2] % 20 = 0 /\ InGrid(apple))

C22_Witness ==
    /\ state = "RUNNING"
    /\ apple # None
    /\ apple # <<0, 0>>
    /\ \E i \in 1..Len(snake) : snake[i][1] > WIDTH - CELL

\* C23: with no key event, every run is over within 30 ticks (the body gains
\* at least one segment per tick, so a running session has at most 32), it
\* does reach GAME_OVER, and it ends by self-collision: on (240,200) after a
\* consumption reset the head to (220,200), or on (800,200) after the turn UP
\* at the right edge and the forced turn DOWN.
C23_IdleRunEndsWithin30Ticks ==
    /\ [](state = "RUNNING" => Len(snake) <= 32)
    /\ [](state = "GAME_OVER" =>
            /\ Last(snake) \in Cells(Front(snake))
            /\ \/ ate /\ Last(snake) = <<240, 200>>
               \/ ~ ate /\ Len(snake) = 33 /\ Last(snake) = <<800, 200>>
                        /\ snake[32] = <<800, 180>> /\ snake[31] = <<800, 200>>)
    /\ <>(state = "GAME_OVER")

C23_Witness ==
    /\ state = "GAME_OVER"
    /\ nkeys = 0
    /\ Len(snake) = 33
    /\ Last(snake) = <<800, 200>>

\* C24: when the loop has stopped because move_snake returned False,
\* check_collision() is True on the final state, so the report guarded by
\* "not check_collision()" (lines 133-134) is not emitted.
C24_FinalReportNeverEmitted ==
    state = "GAME_OVER" => check_collision(snake)

C24_Witness ==
    /\ state = "GAME_OVER"
    /\ ~ GateMet(Last(snake))
    /\ check_collision(snake)
====
